---- MODULE Spec2Model ----
(***************************************************************************)
(* Model of compiler/optimizer.go: Compiler.Optimize and                   *)
(* Compiler.replacePanicsWithTrap.                                         *)
(*                                                                         *)
(* The state is the Compiler's module (c.mod: functions, basic blocks,     *)
(* instructions with their operand lists), the pass-manager builder, the  *)
(* position of Optimize (pc is the source line of the next statement),    *)
(* the value Optimize ended with, and the log of the phases it has run.   *)
(* Collaborators whose code is not in optimizer.go (the LLVM pass          *)
(* managers, transform.*, Lower*, Verify, checkModule, the GC passes) are  *)
(* modelled by their return value only.                                    *)
(***************************************************************************)
EXTENDS Integers, Sequences, FiniteSets, TLC

VARIABLES
    optLevel,          \* Optimize parameter
    sizeLevel,         \* Optimize parameter
    inlinerThreshold,  \* Optimize parameter
    PanicStrategy,     \* c.PanicStrategy
    VerifyIR,          \* c.VerifyIR
    mod,               \* c.mod
    builder,           \* llvm.PassManagerBuilder configured at lines 13-20
    pc,                \* source line of the next statement of Optimize
    result,            \* "running", or how Optimize ended
    phases,            \* the phases run so far, in order
    hasGCPass          \* local variable hasGCPass

vars == <<optLevel, sizeLevel, inlinerThreshold, PanicStrategy, VerifyIR, mod,
          builder, pc, result, phases, hasGCPass>>

config == <<optLevel, sizeLevel, inlinerThreshold, PanicStrategy, VerifyIR>>

\* ---------------------------------------------------------------- bounds

MaxOptLevel == 2
MaxSizeLevel == 2
MaxThreshold == 2
MaxStmts == 2

\* ---------------------------------------------------------------- values

\* llvm.Value: an instruction, a function, a function argument, a constant
\* bitcast expression or a typed null constant.
Inst(i) == [k |-> "inst", id |-> i, name |-> ""]
Fn(n) == [k |-> "fn", id |-> 0, name |-> n]
Arg(n) == [k |-> "arg", id |-> 0, name |-> n]
ConstCast(n) == [k |-> "constcast", id |-> 0, name |-> n]

\* The nil llvm.Value (Value.IsNil()).
Nil == [k |-> "nil", id |-> 0, name |-> ""]

IsNil(v) == v.k = "nil"

ConstPointerNull(ty) == [k |-> "null", id |-> 0, name |-> ty]

ArgType(n) ==
    CASE n = "p" -> "T*"
      [] n = "q" -> "i8*"
      [] OTHER -> "i8*"

\* Value.Type()
TypeOf(m, v) ==
    CASE v.k = "inst" -> m.insts[v.id].ty
      [] v.k = "fn" -> "func*"
      [] v.k = "arg" -> ArgType(v.name)
      [] v.k = "constcast" -> "i8*"
      [] v.k = "null" -> v.name
      [] OTHER -> "void"

\* A call instruction: the arguments are operands 0..n-1 and the called
\* value is the last operand, as in LLVM.
Call(fn, args, ty) == [op |-> "call", ops |-> args \o <<Fn(fn)>>, ty |-> ty]

\* ---------------------------------------------------------------- module

Range(s) == {s[i] : i \in DOMAIN s}

\* Ids of the instructions that are in a basic block of the module.
Placed(m) == UNION {Range(m.blocks[b]) : b \in DOMAIN m.blocks}

\* Module.NamedFunction(name)
NamedFunction(m, name) == IF name \in DOMAIN m.funcs THEN Fn(name) ELSE Nil

NewFunc == [linkage |-> "external", attrs |-> {}]

Declare(m, names) ==
    [m EXCEPT !.funcs = [n \in (DOMAIN m.funcs) \cup names |->
                            IF n \in DOMAIN m.funcs THEN m.funcs[n] ELSE NewFunc]]

FnNames(ops) == {ops[i].name : i \in {j \in DOMAIN ops : ops[j].k = "fn"}}

\* Append instruction `in` to the last basic block; its id is m.next.
Emit(m, in) ==
    LET d == Declare(m, FnNames(in.ops))
        b == Len(d.blocks)
    IN [d EXCEPT !.insts = (m.next :> in) @@ d.insts,
                 !.blocks[b] = Append(@, m.next),
                 !.next = @ + 1]

NewBlock(m) == [m EXCEPT !.blocks = Append(@, <<>>)]

EmptyModule ==
    [insts |-> <<>>, blocks |-> <<<<>>>>, funcs |-> ("main" :> NewFunc), next |-> 1]

StmtKinds ==
    {"isnil", "isnil_cast", "isnil_cast2", "isnil_const", "isnil_value",
     "panic", "runtimePanic", "panic_value", "runtimePanic_value"}

\* A statement that follows a terminator starts a new basic block.
Open(m) ==
    LET last == m.blocks[Len(m.blocks)]
    IN IF last # <<>> /\ m.insts[last[Len(last)]].op = "unreachable"
       THEN NewBlock(m) ELSE m

\* The helper call on pointer x, and a user of its result.
IsNilStmt(m, x) ==
    Emit(Emit(m, Call("runtime.isnil", <<x>>, "i1")),
         [op |-> "use", ops |-> <<Inst(m.next)>>, ty |-> "void"])

\* A call of panic function fn, and the terminator that follows it.
PanicStmt(m, fn) ==
    Emit(Emit(m, Call(fn, <<Arg("msg")>>, "void")),
         [op |-> "unreachable", ops |-> <<>>, ty |-> "void"])

\* The instructions of one source statement, appended to the module.
AddStmt(m0, kind) ==
    LET m == Open(m0)
        n == m.next
    IN CASE kind = "isnil" -> IsNilStmt(m, Arg("q"))
         [] kind = "isnil_cast" ->
              IsNilStmt(Emit(m, [op |-> "bitcast", ops |-> <<Arg("p")>>, ty |-> "i8*"]),
                        Inst(n))
         [] kind = "isnil_cast2" ->
              IsNilStmt(Emit(Emit(m, [op |-> "bitcast", ops |-> <<Arg("p")>>, ty |-> "U*"]),
                             [op |-> "bitcast", ops |-> <<Inst(n)>>, ty |-> "i8*"]),
                        Inst(n + 1))
         [] kind = "isnil_const" -> IsNilStmt(m, ConstCast("g"))
         [] kind = "isnil_value" ->
              Emit(Emit(m, Call("main.f", <<Fn("runtime.isnil")>>, "i8*")),
                   [op |-> "use", ops |-> <<Inst(n)>>, ty |-> "void"])
         [] kind = "panic" -> PanicStmt(m, "runtime._panic")
         [] kind = "runtimePanic" -> PanicStmt(m, "runtime.runtimePanic")
         [] kind = "panic_value" ->
              Emit(m, Call("main.f", <<Fn("runtime._panic")>>, "void"))
         [] kind = "runtimePanic_value" ->
              Emit(m, [op |-> "store",
                       ops |-> <<Fn("runtime.runtimePanic"), Arg("p")>>, ty |-> "void"])

RECURSIVE BuildModule(_, _)
BuildModule(m, stmts) ==
    IF stmts = <<>> THEN m
    ELSE BuildModule(AddStmt(m, Head(stmts)), Tail(stmts))

SeqsUpTo(S, n) == UNION {[1..k -> S] : k \in 0..n}

\* Functions a module may declare without using them.
ExtraDecls == {{}, {"llvm.trap"}}

\* The modules Optimize is run on: up to MaxStmts statements, with llvm.trap
\* declared or not.
Modules ==
    {Declare(BuildModule(EmptyModule, s), d) :
        s \in SeqsUpTo(StmtKinds, MaxStmts), d \in ExtraDecls}

\* The same, with functions that the transforms use.
BaseDecls ==
    ExtraDecls \cup {{"runtime.alloc"}, {"llvm.trap", "runtime.alloc", "runtime.free"}}

BaseModules ==
    {Declare(BuildModule(EmptyModule, s), d) :
        s \in {<<>>, <<"panic">>, <<"panic_value">>, <<"isnil_cast">>},
        d \in BaseDecls}

\* ---------------------------------------------------------------- IR edits

Operand(m, i, n) == m.insts[i].ops[n + 1]

IsACallInst(m, i) == m.insts[i].op = "call"

CalledValue(m, i) == m.insts[i].ops[Len(m.insts[i].ops)]

IsABitCastInst(m, v) == v.k = "inst" /\ m.insts[v.id].op = "bitcast"

\* Instructions of the module that have v among their operands.
Users(m, v) == {i \in Placed(m) : v \in Range(m.insts[i].ops)}

Orderings(S) == {s \in [1..Cardinality(S) -> S] : Range(s) = S}

\* getUses(value): the users of value, in use-list order.  The use-list
\* order is not fixed by the code, so every order is possible.
getUses(m, v) == IF IsNil(v) THEN {<<>>} ELSE Orderings(Users(m, v))

InsertAt(s, n, x) == SubSeq(s, 1, n - 1) \o <<x>> \o SubSeq(s, n, Len(s))

IndexOf(s, x) == CHOOSE n \in DOMAIN s : s[n] = x

\* builder.SetInsertPointBefore(use) followed by builder.Create*: the new
\* instruction is placed in use's block, immediately before use.
InsertBefore(m, use, in) ==
    [m EXCEPT !.insts = (m.next :> in) @@ m.insts,
              !.blocks = [b \in DOMAIN m.blocks |->
                             IF use \in Range(m.blocks[b])
                             THEN InsertAt(m.blocks[b], IndexOf(m.blocks[b], use), m.next)
                             ELSE m.blocks[b]],
              !.next = @ + 1]

\* Value.ReplaceAllUsesWith
ReplaceAllUsesWith(m, old, new) ==
    [m EXCEPT !.insts = [i \in DOMAIN m.insts |->
        [m.insts[i] EXCEPT !.ops = [n \in DOMAIN m.insts[i].ops |->
            IF m.insts[i].ops[n] = Inst(old) THEN new ELSE m.insts[i].ops[n]]]]]

Remove(s, x) == SelectSeq(s, LAMBDA y : y # x)

\* Value.EraseFromParentAsInstruction
EraseFromParentAsInstruction(m, i) ==
    [m EXCEPT !.insts = [j \in (DOMAIN m.insts) \ {i} |-> m.insts[j]],
              !.blocks = [b \in DOMAIN m.blocks |-> Remove(m.blocks[b], i)]]

\* builder.CreateCall(fn, nil, "")
CreateCall(fn) == [op |-> "call", ops |-> <<fn>>, ty |-> "void"]

\* builder.CreateICmp(llvm.IntEQ, lhs, rhs, "")
CreateICmp(lhs, rhs) == [op |-> "icmp", ops |-> <<lhs, rhs>>, ty |-> "i1"]

\* ---------------------------------------------------------------- rewrites

PanicFault == "panic: expected use of a panic function to be a call"
NilTrapFault == "fault: builder.CreateCall on the nil llvm.trap value"
TypeAssertFault == "fault: LLVM assertion, ReplaceAllUsesWith of a value of another type"

Faults == {PanicFault, NilTrapFault, TypeAssertFault}

\* Lines 152-158 with a use that is not a direct call skipped instead of
\* raising the panic.
RECURSIVE TrapUsesSkipping(_, _, _, _)
TrapUsesSkipping(m, trap, fn, uses) ==
    IF uses = <<>> THEN [m |-> m, fault |-> "none"]
    ELSE LET use == Head(uses)
         IN IF ~IsACallInst(m, use) \/ CalledValue(m, use) # fn
            THEN TrapUsesSkipping(m, trap, fn, Tail(uses))
            ELSE IF IsNil(trap)
            THEN [m |-> m, fault |-> NilTrapFault]
            ELSE TrapUsesSkipping(InsertBefore(m, use, CreateCall(trap)),
                                  trap, fn, Tail(uses))

\* Lines 152-158, the loop over the uses of one panic function.  trap is the
\* value looked up at line 146; it is nil when the module does not declare
\* llvm.trap, and CreateCall then dereferences a nil function.
RECURSIVE TrapUses(_, _, _, _)
TrapUses(m, trap, fn, uses) ==
    IF uses = <<>> THEN [m |-> m, fault |-> "none"]
    ELSE LET use == Head(uses)
         IN IF ~IsACallInst(m, use) \/ CalledValue(m, use) # fn
            THEN [m |-> m, fault |-> PanicFault]
            ELSE IF IsNil(trap)
            THEN [m |-> m, fault |-> NilTrapFault]
            ELSE TrapUses(InsertBefore(m, use, CreateCall(trap)), trap, fn, Tail(uses))

\* Lines 145-160.  uses1 and uses2 are what getUses returns for the two
\* panic functions.
replacePanicsWithTrap(m, uses1, uses2) ==
    LET trap == NamedFunction(m, "llvm.trap")
        fn1 == NamedFunction(m, "runtime._panic")
        r1 == IF IsNil(fn1) THEN [m |-> m, fault |-> "none"]
              ELSE TrapUses(m, trap, fn1, uses1)
        fn2 == NamedFunction(r1.m, "runtime.runtimePanic")
    IN IF r1.fault # "none" \/ IsNil(fn2) THEN r1
       ELSE TrapUses(r1.m, trap, fn2, uses2)

\* Every layer of bitcast instructions removed.
RECURSIVE StripCasts(_, _)
StripCasts(m, v) == IF IsABitCastInst(m, v) THEN StripCasts(m, Operand(m, v.id, 0)) ELSE v

\* Lines 72-75 with the test of line 73 made a loop.
ComparedPointerStripped(m, use) == StripCasts(m, Operand(m, use, 0))

\* Lines 72-75: the pointer the comparison is made on.
ComparedPointer(m, use) ==
    LET ptr == Operand(m, use, 0)
    IN IF IsABitCastInst(m, ptr) THEN Operand(m, ptr.id, 0) ELSE ptr

\* Line 76
NullFor(m, ptr) == ConstPointerNull(TypeOf(m, ptr))

\* Lines 77-79 without line 78: use is erased while it still has uses.
ReplaceByICmpNoRedirect(m, use, ptr, nilptr) ==
    EraseFromParentAsInstruction(InsertBefore(m, use, CreateICmp(ptr, nilptr)), use)

\* Lines 77-79: the comparison is created before use, takes over use's
\* uses, and use is erased.
ReplaceByICmp(m, use, ptr, nilptr) ==
    LET icmp == m.next
        m1 == InsertBefore(m, use, CreateICmp(ptr, nilptr))
        m2 == ReplaceAllUsesWith(m1, use, Inst(icmp))
    IN EraseFromParentAsInstruction(m2, use)

\* Lines 70-80, the loop over the uses of runtime.isnil.  An LLVM built with
\* assertions aborts in ReplaceAllUsesWith when the use is not of the
\* comparison's type i1 (asserts tells which build this is).
RECURSIVE LowerIsNilUses(_, _, _)
LowerIsNilUses(m, uses, asserts) ==
    IF uses = <<>> THEN [m |-> m, fault |-> "none"]
    ELSE LET use == Head(uses)
             ptr == ComparedPointer(m, use)
         IN IF asserts /\ m.insts[use].ty # "i1"
            THEN [m |-> InsertBefore(m, use, CreateICmp(ptr, NullFor(m, ptr))),
                  fault |-> TypeAssertFault]
            ELSE LowerIsNilUses(ReplaceByICmp(m, use, ptr, NullFor(m, ptr)),
                                Tail(uses), asserts)

\* ---------------------------------------------------------------- Optimize

Phase(name, ret) == [name |-> name, ret |-> ret, fns |-> {}]

Log(name, ret) == phases' = Append(phases, Phase(name, ret))

Names(log) == [i \in DOMAIN log |-> log[i].name]

Running == result = "running"

\* Errors c.LowerGoroutines() can return.
LoweringErrors == {"lowering error A", "lowering error B"}

\* What c.checkModule() can find.  It hands nothing back to Optimize.
checkModuleResults == {"pass", "fail"}

\* What c.Verify() can return: nil, or an error for a malformed module.
VerifyResults == {"nil", "invalid"}

VerifyError == "optimizations caused a verification failure"
GCVerifyError == "GC pass caused a verification failure"

Configs ==
    [optLevel : 0..MaxOptLevel, sizeLevel : 0..MaxSizeLevel,
     inlinerThreshold : 0..MaxThreshold, PanicStrategy : {"trap", "print"},
     VerifyIR : BOOLEAN]

BaseConfigs ==
    [optLevel : {0, 1}, sizeLevel : {0}, inlinerThreshold : {0},
     PanicStrategy : {"trap", "print"}, VerifyIR : {FALSE}]

\* Every configuration on the base modules, and every module under the base
\* configurations.
Inputs ==
    (Configs \X BaseModules) \cup (BaseConfigs \X Modules)

Init ==
    /\ \E in \in Inputs :
          /\ optLevel = in[1].optLevel
          /\ sizeLevel = in[1].sizeLevel
          /\ inlinerThreshold = in[1].inlinerThreshold
          /\ PanicStrategy = in[1].PanicStrategy
          /\ VerifyIR = in[1].VerifyIR
          /\ mod = in[2]
    /\ builder = [optLevel |-> 0, sizeLevel |-> 0, inliner |-> FALSE,
                  threshold |-> 0, coroutine |-> FALSE]
    /\ pc = 13
    /\ result = "running"
    /\ phases = <<>>
    /\ hasGCPass = FALSE

\* A step that calls a collaborator returning nothing and goes on to line to.
Step(from, name, to) ==
    /\ Running /\ pc = from
    /\ Log(name, "")
    /\ pc' = to
    /\ UNCHANGED <<config, mod, builder, result, hasGCPass>>

\* Lines 13-20 with the inliner chosen by the optimization level instead of
\* by the test of line 17.
ConfigureInlinerByLevel ==
    /\ Running /\ pc = 13
    /\ builder' = [optLevel |-> optLevel, sizeLevel |-> sizeLevel,
                   inliner |-> optLevel > 0,
                   threshold |-> inlinerThreshold, coroutine |-> TRUE]
    /\ pc' = 22
    /\ UNCHANGED <<config, mod, result, phases, hasGCPass>>

\* Lines 13-20
Configure ==
    /\ Running /\ pc = 13
    /\ builder' = [optLevel |-> optLevel, sizeLevel |-> sizeLevel,
                   inliner |-> inlinerThreshold # 0,
                   threshold |-> inlinerThreshold, coroutine |-> TRUE]
    /\ pc' = 22
    /\ UNCHANGED <<config, mod, result, phases, hasGCPass>>

\* Lines 22-24 without the test of line 22: the rewriter runs under every
\* panic strategy.
PanicTrapAnyStrategy ==
    /\ Running /\ pc = 22
    /\ \E uses1 \in getUses(mod, NamedFunction(mod, "runtime._panic")),
          uses2 \in getUses(mod, NamedFunction(mod, "runtime.runtimePanic")) :
          LET r == replacePanicsWithTrap(mod, uses1, uses2)
          IN /\ mod' = r.m
             /\ Log("replacePanicsWithTrap", "")
             /\ IF r.fault = "none"
                THEN pc' = 27 /\ UNCHANGED result
                ELSE pc' = 23 /\ result' = r.fault
    /\ UNCHANGED <<config, builder, hasGCPass>>

\* Lines 22-24
PanicTrap ==
    /\ Running /\ pc = 22
    /\ IF PanicStrategy = "trap"
       THEN \E uses1 \in getUses(mod, NamedFunction(mod, "runtime._panic")),
               uses2 \in getUses(mod, NamedFunction(mod, "runtime.runtimePanic")) :
              LET r == replacePanicsWithTrap(mod, uses1, uses2)
              IN /\ mod' = r.m
                 /\ Log("replacePanicsWithTrap", "")
                 /\ IF r.fault = "none"
                    THEN pc' = 27 /\ UNCHANGED result
                    ELSE pc' = 23 /\ result' = r.fault
       ELSE pc' = 27 /\ UNCHANGED <<mod, phases, result>>
    /\ UNCHANGED <<config, builder, hasGCPass>>

\* Lines 27-29: whatever checkModule finds, Optimize goes on to line 32.
CheckModule ==
    /\ Running /\ pc = 27
    /\ IF VerifyIR
       THEN \E r \in checkModuleResults : Log("checkModule", r)
       ELSE UNCHANGED phases
    /\ pc' = 32
    /\ UNCHANGED <<config, mod, builder, result, hasGCPass>>

\* Lines 32-41 without the test of line 41: the optimizing branch is taken at
\* every optLevel.
FuncPasses1Ungated ==
    /\ Running /\ pc = 32
    /\ phases' = Append(phases, [Phase("funcPasses", "") EXCEPT !.fns = DOMAIN mod.funcs])
    /\ pc' = 43
    /\ UNCHANGED <<config, mod, builder, result, hasGCPass>>

\* Lines 32-41
FuncPasses1 ==
    /\ Running /\ pc = 32
    /\ phases' = Append(phases, [Phase("funcPasses", "") EXCEPT !.fns = DOMAIN mod.funcs])
    /\ pc' = IF optLevel > 0 THEN 43 ELSE 89
    /\ UNCHANGED <<config, mod, builder, result, hasGCPass>>

\* Lines 43-49
GoPasses1 == Step(43, "goPasses", 52)

\* Line 52
OptimizeMaps == Step(52, "OptimizeMaps", 53)

\* Line 53
OptimizeStringToBytes1 == Step(53, "OptimizeStringToBytes", 54)

\* Line 54
OptimizeAllocs1 == Step(54, "OptimizeAllocs", 55)

\* Line 55
LowerInterfaces1 == Step(55, "LowerInterfaces", 56)

\* Line 56
LowerFuncValues1 == Step(56, "LowerFuncValues", 61)

\* Line 61 left out: the generic bundle is not run again after lowering.
GoPasses2Skipped ==
    /\ Running /\ pc = 61
    /\ pc' = 64
    /\ UNCHANGED <<config, mod, builder, result, phases, hasGCPass>>

\* Line 61
GoPasses2 == Step(61, "goPasses", 64)

\* Line 64 calling the map optimizer instead of the allocation optimizer.
OptimizeMaps2 == Step(64, "OptimizeMaps", 65)

\* Line 64
OptimizeAllocs2 == Step(64, "OptimizeAllocs", 65)

\* Line 65
OptimizeStringToBytes2 == Step(65, "OptimizeStringToBytes", 68)

\* Lines 68-81
NilCheckLowering ==
    /\ Running /\ pc = 68
    /\ LET isnil == NamedFunction(mod, "runtime.isnil")
       IN IF ~IsNil(isnil)
          THEN \E uses \in getUses(mod, isnil), asserts \in BOOLEAN :
                 LET r == LowerIsNilUses(mod, uses, asserts)
                 IN /\ mod' = r.m
                    /\ IF r.fault = "none"
                       THEN pc' = 83 /\ UNCHANGED result
                       ELSE pc' = 78 /\ result' = r.fault
          ELSE pc' = 83 /\ UNCHANGED <<mod, result>>
    /\ Log("NilCheckLowering", "")
    /\ UNCHANGED <<config, builder, hasGCPass>>

\* LowerGoroutines with the error replaced by a new one on return.
LowerGoroutinesWrapped(from, to) ==
    /\ Running /\ pc = from
    /\ \E err \in {"nil"} \cup LoweringErrors :
          /\ Log("LowerGoroutines", err)
          /\ IF err # "nil"
             THEN pc' = from + 2 /\ result' = "goroutine lowering failed"
             ELSE pc' = to /\ UNCHANGED result
    /\ UNCHANGED <<config, mod, builder, hasGCPass>>

\* c.LowerGoroutines() and the test of its error, at line from.
LowerGoroutines(from, to) ==
    /\ Running /\ pc = from
    /\ \E err \in {"nil"} \cup LoweringErrors :
          /\ Log("LowerGoroutines", err)
          /\ IF err # "nil"
             THEN pc' = from + 2 /\ result' = err
             ELSE pc' = to /\ UNCHANGED result
    /\ UNCHANGED <<config, mod, builder, hasGCPass>>

\* Lines 83-86
LowerGoroutines1 == LowerGoroutines(83, 96)

\* Line 89
LowerInterfaces0 == Step(89, "LowerInterfaces", 90)

\* Line 90 left out: function values are lowered only when optimizing.
LowerFuncValues0Skipped ==
    /\ Running /\ pc = 90
    /\ pc' = 91
    /\ UNCHANGED <<config, mod, builder, result, phases, hasGCPass>>

\* Line 90
LowerFuncValues0 == Step(90, "LowerFuncValues", 91)

\* Lines 91-94
LowerGoroutines0 == LowerGoroutines(91, 96)

\* Lines 96-98 with the verification made conditional on c.VerifyIR.
VerifyIfEnabled ==
    /\ Running /\ pc = 96
    /\ IF VerifyIR
       THEN \E err \in VerifyResults :
               /\ Log("Verify", err)
               /\ IF err # "nil"
                  THEN pc' = 97 /\ result' = VerifyError
                  ELSE pc' = 100 /\ UNCHANGED result
       ELSE pc' = 100 /\ UNCHANGED <<phases, result>>
    /\ UNCHANGED <<config, mod, builder, hasGCPass>>

\* Lines 96-98
Verify ==
    /\ Running /\ pc = 96
    /\ \E err \in VerifyResults :
          /\ Log("Verify", err)
          /\ IF err # "nil"
             THEN pc' = 97 /\ result' = VerifyError
             ELSE pc' = 100 /\ UNCHANGED result
    /\ UNCHANGED <<config, mod, builder, hasGCPass>>

\* Lines 105-107
AddFunctionAttrs(m, attr) ==
    [m EXCEPT !.funcs = [n \in DOMAIN m.funcs |->
                            [m.funcs[n] EXCEPT !.attrs = @ \cup {attr}]]]

\* Lines 100-108 with the test of line 100 written sizeLevel > 2.
SizeTagAboveTwo ==
    /\ Running /\ pc = 100
    /\ IF sizeLevel > 2
       THEN /\ mod' = AddFunctionAttrs(mod, "optsize")
            /\ phases' = Append(phases,
                            [Phase("optsize", "") EXCEPT !.fns = DOMAIN mod.funcs])
       ELSE UNCHANGED <<mod, phases>>
    /\ pc' = 111
    /\ UNCHANGED <<config, builder, result, hasGCPass>>

\* Lines 100-108
SizeTag ==
    /\ Running /\ pc = 100
    /\ IF sizeLevel >= 2
       THEN /\ mod' = AddFunctionAttrs(mod, "optsize")
            /\ phases' = Append(phases,
                            [Phase("optsize", "") EXCEPT !.fns = DOMAIN mod.funcs])
       ELSE UNCHANGED <<mod, phases>>
    /\ pc' = 111
    /\ UNCHANGED <<config, builder, result, hasGCPass>>

\* c.getFunctionsUsedInTransforms()
getFunctionsUsedInTransforms == <<"runtime.alloc", "runtime.free", "runtime.nilPanic">>

\* Lines 111-117 with the linkage of every function of the module reset.
SetLinkagesOfAll(m, names) ==
    [m EXCEPT !.funcs = [n \in DOMAIN m.funcs |->
                            [m.funcs[n] EXCEPT !.linkage = "internal"]]]

\* Lines 111-117
SetLinkages(m, names) ==
    [m EXCEPT !.funcs = [n \in DOMAIN m.funcs |->
                            IF n \in Range(names)
                            THEN [m.funcs[n] EXCEPT !.linkage = "internal"]
                            ELSE m.funcs[n]]]

\* Lines 111-117
LinkageFinalizer ==
    /\ Running /\ pc = 111
    /\ mod' = SetLinkages(mod, getFunctionsUsedInTransforms)
    /\ Log("SetLinkage", "")
    /\ pc' = 121
    /\ UNCHANGED <<config, builder, result, hasGCPass>>

\* Lines 121-124 left out: the function passes are run once only.
FuncPasses2Skipped ==
    /\ Running /\ pc = 121
    /\ pc' = 127
    /\ UNCHANGED <<config, mod, builder, result, phases, hasGCPass>>

\* Lines 121-124
FuncPasses2 ==
    /\ Running /\ pc = 121
    /\ phases' = Append(phases, [Phase("funcPasses", "") EXCEPT !.fns = DOMAIN mod.funcs])
    /\ pc' = 127
    /\ UNCHANGED <<config, mod, builder, result, hasGCPass>>

\* Lines 127-130
ModPasses == Step(127, "modPasses", 132)

BoolStr(b) == IF b THEN "true" ELSE "false"

\* Line 132
AddGlobalsBitmap ==
    /\ Running /\ pc = 132
    /\ \E changed \in BOOLEAN :
          /\ Log("addGlobalsBitmap", BoolStr(changed))
          /\ hasGCPass' = changed
    /\ pc' = 133
    /\ UNCHANGED <<config, mod, builder, result>>

\* Line 133 written as hasGCPass || c.makeGCStackSlots(): the call is
\* short-circuited away when the bitmap pass reported a change.
MakeGCStackSlotsShortCircuit ==
    /\ Running /\ pc = 133
    /\ IF hasGCPass
       THEN UNCHANGED <<phases, hasGCPass>>
       ELSE \E changed \in BOOLEAN :
               /\ Log("makeGCStackSlots", BoolStr(changed))
               /\ hasGCPass' = changed
    /\ pc' = 134
    /\ UNCHANGED <<config, mod, builder, result>>

\* Line 133: makeGCStackSlots is called before || looks at hasGCPass.
MakeGCStackSlots ==
    /\ Running /\ pc = 133
    /\ \E changed \in BOOLEAN :
          /\ Log("makeGCStackSlots", BoolStr(changed))
          /\ hasGCPass' = (changed \/ hasGCPass)
    /\ pc' = 134
    /\ UNCHANGED <<config, mod, builder, result>>

\* Lines 134-140
FinalVerify ==
    /\ Running /\ pc = 134
    /\ IF hasGCPass
       THEN \E err \in VerifyResults :
               /\ Log("Verify", err)
               /\ IF err # "nil"
                  THEN pc' = 136 /\ result' = GCVerifyError
                  ELSE pc' = 140 /\ result' = "nil"
       ELSE pc' = 140 /\ result' = "nil" /\ UNCHANGED phases
    /\ UNCHANGED <<config, mod, builder, hasGCPass>>

Next ==
    \/ Configure
    \/ PanicTrap
    \/ CheckModule
    \/ FuncPasses1
    \/ GoPasses1
    \/ OptimizeMaps
    \/ OptimizeStringToBytes1
    \/ OptimizeAllocs1
    \/ LowerInterfaces1
    \/ LowerFuncValues1
    \/ GoPasses2
    \/ OptimizeAllocs2
    \/ OptimizeStringToBytes2
    \/ NilCheckLowering
    \/ LowerGoroutines1
    \/ LowerInterfaces0
    \/ LowerFuncValues0
    \/ LowerGoroutines0
    \/ Verify
    \/ SizeTag
    \/ LinkageFinalizer
    \/ FuncPasses2
    \/ ModPasses
    \/ AddGlobalsBitmap
    \/ MakeGCStackSlots
    \/ FinalVerify

Spec == Init /\ [][Next]_vars

\* ---------------------------------------------------------------- phase log

\* Positions of the log at which phase name ran.
Idx(name) == {i \in DOMAIN phases : phases[i].name = name}

First(S) == CHOOSE i \in S : \A j \in S : i <= j

Returned(name, ret) == \E i \in Idx(name) : phases[i].ret = ret

\* The phases run after the first function-pass round and before the
\* post-lowering verification.
LoweringWindow ==
    LET from == First(Idx("funcPasses"))
        to == IF Idx("Verify") = {} THEN Len(phases) ELSE First(Idx("Verify")) - 1
    IN SubSeq(Names(phases), from + 1, to)

DomainOptimizers == {"OptimizeMaps", "OptimizeStringToBytes", "OptimizeAllocs"}

Lowerings == {"LowerInterfaces", "LowerFuncValues", "LowerGoroutines"}

\* The phases that follow the post-lowering verification.
LaterPhases ==
    {"optsize", "SetLinkage", "funcPasses", "modPasses", "addGlobalsBitmap",
     "makeGCStackSlots", "Verify"}

\* A run of consecutive domain-specific optimizers counts as one phase.
RECURSIVE Grouped(_)
Grouped(s) ==
    IF s = <<>> THEN <<>>
    ELSE IF Head(s) \in DomainOptimizers
    THEN IF Len(s) > 1 /\ s[2] \in DomainOptimizers
         THEN Grouped(Tail(s))
         ELSE <<"domainOptimizers">> \o Grouped(Tail(s))
    ELSE <<Head(s)>> \o Grouped(Tail(s))

\* A verification checkpoint that failed, at position i of the log.
GateFailed(i) ==
    \/ phases[i].name = "checkModule" /\ phases[i].ret = "fail"
    \/ phases[i].name = "Verify" /\ phases[i].ret = "invalid"

\* ---------------------------------------------------------------- claims

\* C1 (as stated): whenever a verification checkpoint has failed -- the
\* leading check under the verify flag, the post-lowering check or the
\* post-GC check -- Optimize has returned a failure and no phase has run
\* after that checkpoint.
C1_GateFailureAborts ==
    \A i \in DOMAIN phases :
        GateFailed(i) =>
            /\ i = Len(phases)
            /\ result # "nil"
            /\ ~Running => result \in {VerifyError, GCVerifyError}

\* C1, the part the code keeps: a failure of c.Verify() (post-lowering or
\* post-GC) makes Optimize return an error and nothing runs after it.
C1_VerifyFailureAborts ==
    \A i \in Idx("Verify") :
        phases[i].ret = "invalid" =>
            /\ i = Len(phases)
            /\ result \in {VerifyError, GCVerifyError}
            /\ pc \in {97, 136}

\* C2: at optLevel > 0, on a run that reached the post-lowering verification,
\* the phases between the first function-pass round and that verification
\* are, in order and once each: generic bundle, domain-specific optimizers,
\* interface lowering, function-value lowering, generic bundle,
\* domain-specific optimizers, NilCheckLowering, task lowering.
C2_PhaseOrder ==
    (optLevel > 0 /\ pc >= 96) =>
        Grouped(LoweringWindow) =
            <<"goPasses", "domainOptimizers", "LowerInterfaces", "LowerFuncValues",
              "goPasses", "domainOptimizers", "NilCheckLowering", "LowerGoroutines">>

C2_Witness == optLevel > 0 /\ pc = 100 /\ Len(LoweringWindow) > 7

\* C3: at every optLevel, a run that reached the post-lowering verification
\* has run interface lowering, function-value lowering and task lowering
\* once each, in that order; at optLevel = 0 nothing else ran between the
\* first function-pass round and the verification.
C3_LoweringAtEveryLevel ==
    pc >= 96 =>
        /\ SelectSeq(LoweringWindow, LAMBDA n : n \in Lowerings) =
              <<"LowerInterfaces", "LowerFuncValues", "LowerGoroutines">>
        /\ optLevel = 0 =>
              LoweringWindow = <<"LowerInterfaces", "LowerFuncValues", "LowerGoroutines">>

C3_Witness == optLevel = 0 /\ pc = 100 /\ Len(LoweringWindow) = 3

\* C4: when task lowering returned an error, Optimize returned that very
\* error at once: task lowering is the last phase that ran.
C4_LoweringErrorPropagates ==
    \A i \in Idx("LowerGoroutines") :
        phases[i].ret # "nil" =>
            /\ result = phases[i].ret
            /\ i = Len(phases)
            /\ pc \in {85, 93}

C4_Witness ==
    /\ result \in LoweringErrors
    /\ phases[Len(phases)].name = "LowerGoroutines"

\* C5: once task lowering has succeeded and Optimize has moved on, the
\* verification ran exactly once before any later phase, directly after
\* task lowering and whatever the configuration; every phase after it is a
\* later phase and every phase before it is not; when it failed Optimize
\* returned "optimizations caused a verification failure", which is not the
\* error of the post-GC verification.
C5_PostLoweringVerify ==
    \A g \in Idx("LowerGoroutines") :
        (phases[g].ret = "nil" /\ pc > 96) =>
            /\ Len(phases) > g
            /\ phases[g + 1].name = "Verify"
            /\ Cardinality({i \in Idx("Verify") :
                               \A j \in Idx("addGlobalsBitmap") : i < j}) = 1
            /\ \A i \in DOMAIN phases :
                  /\ phases[i].name \in Lowerings \cup {"NilCheckLowering"} => i <= g
                  /\ phases[i].name \in LaterPhases \ {"funcPasses", "Verify"}
                        => i > g + 1
                  /\ (phases[i].name = "funcPasses" /\ i # First(Idx("funcPasses")))
                        => i > g + 1
            /\ phases[g + 1].ret = "invalid" =>
                  /\ result = VerifyError
                  /\ result # GCVerifyError
                  /\ Len(phases) = g + 1

C5_Witness ==
    /\ result = VerifyError
    /\ Returned("LowerGoroutines", "nil")
    /\ ~VerifyIR

\* C6: a run that reached GC instrumentation ran addGlobalsBitmap and then
\* makeGCStackSlots, once each, whatever the first returned; when the run
\* has ended, a final verification ran if and only if one of the two
\* reported a change; its failure is returned as "GC pass caused a
\* verification failure", and with no change Optimize returned nil with
\* makeGCStackSlots as the last phase.
C6_GCInstrumentation ==
    pc \in {134, 136, 140} =>
        \E a \in Idx("addGlobalsBitmap") :
            LET changed == phases[a].ret = "true" \/ phases[a + 1].ret = "true"
            IN /\ Idx("addGlobalsBitmap") = {a}
               /\ Idx("makeGCStackSlots") = {a + 1}
               /\ hasGCPass = changed
               /\ pc \in {136, 140} =>
                     /\ changed <=> Len(phases) = a + 2
                     /\ ~changed <=> Len(phases) = a + 1
                     /\ changed => phases[a + 2].name = "Verify"
                     /\ (changed /\ phases[a + 2].ret = "invalid")
                           <=> result = GCVerifyError
                     /\ ~changed => result = "nil"

C6_Witness ==
    /\ result = GCVerifyError
    /\ Returned("addGlobalsBitmap", "true")
    /\ Returned("makeGCStackSlots", "false")

\* ---------------------------------------------------------------- rewrites: claims

IsNilFn == Fn("runtime.isnil")

PanicFns == {Fn("runtime._panic"), Fn("runtime.runtimePanic")}

\* Call instructions of m whose called value is fn.
CallSites(m, fn) ==
    {i \in Placed(m) : m.insts[i].op = "call" /\ m.insts[i].ops[Len(m.insts[i].ops)] = fn}

\* The block and the index in it at which instruction i is placed.
Position(m, i) ==
    CHOOSE pos \in {<<b, n>> : b \in DOMAIN m.blocks, n \in 1..m.next} :
        pos[2] \in DOMAIN m.blocks[pos[1]] /\ m.blocks[pos[1]][pos[2]] = i

\* The instruction of m placed where pos points.
At(m, pos) == m.blocks[pos[1]][pos[2]]

\* No operand of a placed instruction is an instruction that is not placed.
NoDangling(m) ==
    \A i \in Placed(m) : \A n \in DOMAIN m.insts[i].ops :
        m.insts[i].ops[n].k = "inst" => m.insts[i].ops[n].id \in Placed(m)

\* NilCheckLowering ran to its end in this step.
NilCheckDone == pc = 68 /\ pc' = 83

\* Call site c of the helper in mod is, in mod', replaced at its position by
\* a new comparison against null that every user of c now refers to, and c
\* is gone.
CallSiteLowered(c) ==
    LET pos == Position(mod, c)
        icmp == At(mod', pos)
    IN /\ c \notin Placed(mod') /\ c \notin DOMAIN mod'.insts
       /\ icmp \notin DOMAIN mod.insts
       /\ mod'.insts[icmp].op = "icmp"
       /\ mod'.insts[icmp].ops[2].k = "null"
       /\ \A u \in Users(mod, Inst(c)) :
             /\ u \in Placed(mod')
             /\ \A n \in DOMAIN mod.insts[u].ops :
                   mod.insts[u].ops[n] = Inst(c) => mod'.insts[u].ops[n] = Inst(icmp)

C8_ComparedPointer ==
    [][NilCheckDone =>
          \A c \in CallSites(mod, IsNilFn) :
              LET first == mod.insts[c].ops[1]
                  ptr == IF first.k = "inst" /\ mod.insts[first.id].op = "bitcast"
                         THEN mod.insts[first.id].ops[1]
                         ELSE first
                  icmp == At(mod', Position(mod, c))
              IN mod'.insts[icmp].ops =
                    <<ptr, [k |-> "null", id |-> 0, name |-> TypeOf(mod, ptr)]>>]_vars

\* A call through a cast of a cast has been lowered: the comparison is on
\* the inner cast, against a null of the inner cast's type.
C8_Witness ==
    /\ pc = 83
    /\ \E i \in Placed(mod) :
          /\ mod.insts[i].op = "icmp"
          /\ mod.insts[i].ops[1].k = "inst"
          /\ mod.insts[mod.insts[i].ops[1].id].op = "bitcast"
          /\ mod.insts[i].ops[2] = [k |-> "null", id |-> 0, name |-> "U*"]

\* Every use of the panic functions is a call with that function called.
AllDirect(m) == \A fn \in PanicFns : Users(m, fn) = CallSites(m, fn)

PanicCalls(m) == UNION {CallSites(m, fn) : fn \in PanicFns}

\* Call site c of mod is unchanged in mod' and the instruction before it, in
\* its block, is a new call of llvm.trap.
TrapBefore(c) ==
    LET pos == Position(mod', c)
    IN /\ c \in Placed(mod')
       /\ mod'.insts[c] = mod.insts[c]
       /\ pos[2] > 1
       /\ LET t == At(mod', <<pos[1], pos[2] - 1>>)
          IN /\ t \notin DOMAIN mod.insts
             /\ mod'.insts[t] = [op |-> "call", ops |-> <<Fn("llvm.trap")>>, ty |-> "void"]

\* C9 (as stated): under the trap strategy, on a module in which every use
\* of the panic functions is a direct call, PanicTrapRewriter ends with
\* every such call still in place and directly preceded, in its block, by a
\* call of llvm.trap, one new trap per call site.
C9_TrapBeforeEveryPanic ==
    [][(pc = 22 /\ PanicStrategy = "trap" /\ AllDirect(mod)) =>
          /\ pc' = 27
          /\ \A c \in PanicCalls(mod) : TrapBefore(c)
          /\ Cardinality(DOMAIN mod'.insts) =
                Cardinality(DOMAIN mod.insts) + Cardinality(PanicCalls(mod))]_vars

\* C9, the part the code keeps: the same, on the modules that declare
\* llvm.trap or call neither panic function.
C9_WhenTrapDeclared ==
    [][(/\ pc = 22 /\ PanicStrategy = "trap" /\ AllDirect(mod)
        /\ ("llvm.trap" \in DOMAIN mod.funcs \/ PanicCalls(mod) = {})) =>
          /\ pc' = 27
          /\ \A c \in PanicCalls(mod) : TrapBefore(c)
          /\ Cardinality(DOMAIN mod'.insts) =
                Cardinality(DOMAIN mod.insts) + Cardinality(PanicCalls(mod))]_vars

\* C10: under the trap strategy, when some use of a panic function is not a
\* direct call, Optimize does not get past line 23: it ends with a fault
\* (the panic of line 154 when llvm.trap is declared), not with a returned
\* value, and replacePanicsWithTrap is the only phase that ran.
C10_PreconditionFault ==
    (PanicStrategy = "trap" /\ ~AllDirect(mod) /\ pc \notin {13, 22}) =>
        /\ pc = 23
        /\ result \in {PanicFault, NilTrapFault}
        /\ "llvm.trap" \in DOMAIN mod.funcs => result = PanicFault
        /\ Names(phases) = <<"replacePanicsWithTrap">>

C10_Witness ==
    /\ result = PanicFault
    /\ ~AllDirect(mod)
    /\ \E fn \in PanicFns : Users(mod, fn) # {} /\ CallSites(mod, fn) = {}

\* ---------------------------------------------------------------- configuration: claims

\* C11: once the builder is configured, a zero inlinerThreshold has not
\* enabled the inliner, whatever optLevel is; a nonzero threshold with
\* optLevel > 0 has enabled it with exactly that threshold; and the coroutine
\* passes are registered at the builder's extension points in every run.
C11_InlinerThreshold ==
    pc # 13 =>
        /\ inlinerThreshold = 0 => ~builder.inliner
        /\ (inlinerThreshold # 0 /\ optLevel > 0) =>
              (builder.inliner /\ builder.threshold = inlinerThreshold)
        /\ builder.coroutine

C11_Witness ==
    /\ pc = 140
    /\ inlinerThreshold > 1 /\ optLevel > 0
    /\ builder.inliner /\ builder.threshold = inlinerThreshold

\* C12 (as stated): at optLevel = 0, whatever inlinerThreshold is, the
\* builder the module-pass runner was populated from has no inliner, and a
\* run that reached the post-lowering verification ran the three lowering
\* transforms.
C12_NoInliningAtLevel0 ==
    (optLevel = 0 /\ Idx("modPasses") # {}) =>
        /\ ~builder.inliner
        /\ SelectSeq(LoweringWindow, LAMBDA n : n \in Lowerings) =
              <<"LowerInterfaces", "LowerFuncValues", "LowerGoroutines">>

\* C12, the part the code keeps: at optLevel = 0 with a zero threshold the
\* inliner is not enabled, and the three lowering transforms ran.
C12_WhenThresholdZero ==
    (optLevel = 0 /\ inlinerThreshold = 0 /\ Idx("modPasses") # {}) =>
        /\ ~builder.inliner
        /\ SelectSeq(LoweringWindow, LAMBDA n : n \in Lowerings) =
              <<"LowerInterfaces", "LowerFuncValues", "LowerGoroutines">>

\* Function f has the same linkage and, optsize aside, the same attributes
\* in mod' as in mod.
SameButOptsize(f) ==
    /\ mod'.funcs[f].linkage = mod.funcs[f].linkage
    /\ mod'.funcs[f].attrs \ {"optsize"} = mod.funcs[f].attrs \ {"optsize"}

\* C13: the step at line 100, reached only when the post-lowering
\* verification passed, gives every function of the module the optsize
\* attribute when sizeLevel >= 2; with sizeLevel < 2 no step of Optimize adds
\* optsize to a function; and the step changes nothing but attribute sets
\* (same functions, instructions, blocks and linkage) and goes on to line
\* 111 without ending the run.
C13_SizeTag ==
    [][/\ (pc = 100 /\ sizeLevel >= 2) =>
             \A f \in DOMAIN mod.funcs : "optsize" \in mod'.funcs[f].attrs
       /\ sizeLevel < 2 =>
             \A f \in DOMAIN mod'.funcs :
                 "optsize" \in mod'.funcs[f].attrs =>
                     (f \in DOMAIN mod.funcs /\ "optsize" \in mod.funcs[f].attrs)
       /\ pc = 100 =>
             /\ pc' = 111 /\ result' = result
             /\ phases[Len(phases)] = Phase("Verify", "nil")
             /\ DOMAIN mod'.funcs = DOMAIN mod.funcs
             /\ mod'.insts = mod.insts /\ mod'.blocks = mod.blocks
             /\ \A f \in DOMAIN mod.funcs : SameButOptsize(f)]_vars

C13_Witness ==
    /\ pc = 111 /\ sizeLevel >= 2
    /\ Cardinality(DOMAIN mod.funcs) > 1
    /\ \A f \in DOMAIN mod.funcs : mod.funcs[f].attrs = {"optsize"}

\* The names c.getFunctionsUsedInTransforms() returns.
Listed == Range(getFunctionsUsedInTransforms)

\* C14: the step at line 111 is taken when the three lowering transforms
\* and a passing post-lowering verification are behind and the second
\* function-pass round is not; it gives internal linkage to every listed
\* function the module has, leaves every other function as it was, skips
\* listed names the module lacks, ends no run, and changes nothing when the
\* module has no listed function.  No lowering transform runs after it.
C14_LinkageFinalizer ==
    [][/\ pc = 111 =>
             /\ pc' = 121 /\ result' = result
             /\ \A n \in Lowerings : Idx(n) # {}
             /\ \E v \in Idx("Verify") : phases[v].ret = "nil"
             /\ Cardinality(Idx("funcPasses")) = 1
             /\ Idx("modPasses") = {}
             /\ DOMAIN mod'.funcs = DOMAIN mod.funcs
             /\ mod'.insts = mod.insts /\ mod'.blocks = mod.blocks
             /\ \A f \in DOMAIN mod.funcs :
                   IF f \in Listed
                   THEN /\ mod'.funcs[f].linkage = "internal"
                        /\ mod'.funcs[f].attrs = mod.funcs[f].attrs
                   ELSE mod'.funcs[f] = mod.funcs[f]
             /\ Listed \cap DOMAIN mod.funcs = {} => mod' = mod
       /\ Idx("SetLinkage") # {} =>
             /\ phases'[Len(phases')].name \notin Lowerings \cup {"NilCheckLowering"}
             /\ \A f \in DOMAIN mod.funcs :
                   mod'.funcs[f].linkage = mod.funcs[f].linkage]_vars

C14_Witness ==
    /\ pc = 121
    /\ "runtime.alloc" \in DOMAIN mod.funcs
    /\ mod.funcs["runtime.alloc"].linkage = "internal"
    /\ mod.funcs["main"].linkage = "external"
    /\ "runtime.free" \notin DOMAIN mod.funcs

\* C15: at optLevel = 0 no step of Optimize rewrites or erases a call of
\* runtime.isnil (the calls stay as they are, no comparison appears, and
\* NilCheckLowering is not run); line 68 is reached only at optLevel > 0, and
\* on a module without the helper the step leaves the module as it is, ends
\* no run and goes on to task lowering.
C15_NilCheckGated ==
    [][/\ optLevel = 0 =>
             /\ CallSites(mod', IsNilFn) = CallSites(mod, IsNilFn)
             /\ \A c \in CallSites(mod, IsNilFn) : mod'.insts[c] = mod.insts[c]
             /\ \A i \in Placed(mod') : mod'.insts[i].op # "icmp"
             /\ \A i \in DOMAIN phases' : phases'[i].name # "NilCheckLowering"
       /\ pc = 68 => optLevel > 0
       /\ (pc = 68 /\ IsNil(NamedFunction(mod, "runtime.isnil"))) =>
             /\ mod' = mod
             /\ pc' = 83 /\ result' = result]_vars

C15_Witness ==
    /\ optLevel = 0 /\ pc = 140
    /\ CallSites(mod, IsNilFn) # {}
    /\ \E c \in CallSites(mod, IsNilFn) : IsABitCastInst(mod, mod.insts[c].ops[1])

TrapCalls(m) == CallSites(m, Fn("llvm.trap"))

\* C16: under the trap strategy, once Optimize is past line 22,
\* replacePanicsWithTrap has run exactly once and is the first phase of the
\* log, ahead of checkModule and of the first function-pass round; under any
\* other strategy it has not run and the module holds no call of llvm.trap.
C16_PanicTrapFirst ==
    /\ (PanicStrategy = "trap" /\ pc \notin {13, 22}) =>
          Idx("replacePanicsWithTrap") = {1}
    /\ (PanicStrategy = "trap" /\ pc \in {13, 22}) => phases = <<>>
    /\ PanicStrategy # "trap" =>
          /\ Idx("replacePanicsWithTrap") = {}
          /\ TrapCalls(mod) = {}

C16_Witness ==
    /\ PanicStrategy = "trap" /\ VerifyIR /\ pc = 140
    /\ Len(phases) > 2
    /\ phases[1].name = "replacePanicsWithTrap"
    /\ phases[2].name = "checkModule"
    /\ phases[3].name = "funcPasses"
    /\ TrapCalls(mod) # {}

\* C17: on a run that returned nil, at every optLevel, the function passes
\* ran exactly twice, each time over every function of the module: the
\* first round before every lowering transform, the second after task
\* lowering, the post-lowering verification and the linkage step; the
\* module passes ran exactly once, after the second round and before the GC
\* passes, from the builder as it was configured at lines 13-20.
C17_PassRunners ==
    result = "nil" =>
        \E a, b \in Idx("funcPasses"), m \in Idx("modPasses") :
            /\ Idx("funcPasses") = {a, b} /\ a < b
            /\ Idx("modPasses") = {m}
            /\ phases[a].fns = DOMAIN mod.funcs
            /\ phases[b].fns = DOMAIN mod.funcs
            /\ \A n \in Lowerings : Idx(n) # {}
            /\ \A i \in DOMAIN phases :
                  phases[i].name \in Lowerings \cup {"NilCheckLowering"} =>
                      (a < i /\ i < b)
            /\ a < First(Idx("Verify")) /\ First(Idx("Verify")) < b
            /\ Idx("SetLinkage") # {}
            /\ \A i \in Idx("SetLinkage") : i < b
            /\ b < m
            /\ Idx("addGlobalsBitmap") # {}
            /\ \A i \in Idx("addGlobalsBitmap") \cup Idx("makeGCStackSlots") : m < i
            /\ builder = [optLevel |-> optLevel, sizeLevel |-> sizeLevel,
                          inliner |-> inlinerThreshold # 0,
                          threshold |-> inlinerThreshold, coroutine |-> TRUE]

C17_Witness ==
    /\ result = "nil" /\ optLevel = 0
    /\ Cardinality(Idx("funcPasses")) = 2
    /\ Cardinality(Idx("modPasses")) = 1
    /\ Cardinality(DOMAIN mod.funcs) > 1

Last(S) == CHOOSE i \in S : \A j \in S : j <= i

\* The domain-specific optimizers of the first round: the phases between
\* the first generic bundle and interface lowering.
FirstRound ==
    SubSeq(Names(phases), First(Idx("goPasses")) + 1, First(Idx("LowerInterfaces")) - 1)

\* Those of the second round: the phases after the second generic bundle, up
\* to NilCheckLowering.
SecondRound ==
    SubSeq(Names(phases), Last(Idx("goPasses")) + 1,
           IF Idx("NilCheckLowering") = {} THEN Len(phases)
           ELSE First(Idx("NilCheckLowering")) - 1)

\* C18 (as stated): at optLevel > 0, once the second round of
\* domain-specific optimizers is behind, it ran the same set of optimizers
\* as the first round (maps, string-to-bytes, allocations), so each of the
\* three ran exactly twice.
C18_SameSetTwice ==
    (optLevel > 0 /\ pc >= 68) =>
        /\ Range(SecondRound) = Range(FirstRound)
        /\ Range(FirstRound) = DomainOptimizers
        /\ \A o \in DomainOptimizers : Cardinality(Idx(o)) = 2

\* C18 (amended): at optLevel > 0, once the second round is behind, the
\* first round ran maps, string-to-bytes and allocations, the second round
\* ran allocations and string-to-bytes only; these two ran exactly twice
\* and the map optimizer exactly once.
C18_SecondRoundWithoutMaps ==
    (optLevel > 0 /\ pc >= 68) =>
        /\ FirstRound = <<"OptimizeMaps", "OptimizeStringToBytes", "OptimizeAllocs">>
        /\ SecondRound = <<"OptimizeAllocs", "OptimizeStringToBytes">>
        /\ Cardinality(Idx("OptimizeAllocs")) = 2
        /\ Cardinality(Idx("OptimizeStringToBytes")) = 2
        /\ Cardinality(Idx("OptimizeMaps")) = 1

C18_Witness ==
    /\ optLevel > 0 /\ result = "nil"
    /\ Len(SecondRound) = 2
    /\ Cardinality(Idx("OptimizeMaps")) = 1

\* ---------------------------------------------------------------- outcomes: claims

\* The outcomes of a run: nil, the error of task lowering, the two
\* verification errors, and the panic of line 154.
Outcomes == {"nil", VerifyError, GCVerifyError, PanicFault} \cup LoweringErrors

\* How many times the schedule of Optimize holds phase name.
Scheduled(name) ==
    IF name \in {"funcPasses", "goPasses", "OptimizeAllocs", "OptimizeStringToBytes",
                 "Verify"}
    THEN 2 ELSE 1

\* C19 (as stated): a run that has ended has ended in one of the five
\* outcomes (success, the task-lowering error, the post-lowering
\* verification error, the post-GC verification error, the precondition
\* fault); after a failed phase nothing has run; and no phase has run more
\* often than its place in the schedule allows.
C19_SingleOutcome ==
    /\ ~Running => result \in Outcomes
    /\ (~Running /\ result # "nil") =>
          \A i \in DOMAIN phases : phases[i].ret \notin {"invalid"} \cup LoweringErrors
                                        \/ i = Len(phases)
    /\ \A i \in DOMAIN phases : Cardinality(Idx(phases[i].name)) <= Scheduled(phases[i].name)

\* C19, the part the code keeps: every step of Optimize moves to a later
\* line (so a run takes finitely many steps and re-enters no phase), an
\* ended run takes no further step, a phase that returned an error is the
\* last one of its run, and no phase runs more often than scheduled.
C19_NoReentry ==
    [][/\ pc' > pc
       /\ Running
       /\ Len(phases') <= Len(phases) + 1
       /\ \A i \in DOMAIN phases :
             /\ phases'[i] = phases[i]
             /\ phases[i].ret \notin {"invalid"} \cup LoweringErrors
       /\ \A i \in DOMAIN phases' :
             Cardinality({j \in DOMAIN phases' : phases'[j].name = phases'[i].name})
                 <= Scheduled(phases'[i].name)]_vars

\* Uses of the helper that are not calls of it.
ValueUses(m) == Users(m, IsNilFn) \ CallSites(m, IsNilFn)

\* C20 (as stated): NilCheckLowering leaves every use of runtime.isnil that
\* is not a direct call of it in place and unchanged: the instruction is not
\* erased, and no comparison is created from it.
C20_OnlyDirectCalls ==
    [][pc = 68 =>
          \A u \in ValueUses(mod) :
              /\ u \in Placed(mod')
              /\ mod'.insts[u] = mod.insts[u]
              /\ \A i \in Placed(mod') \ Placed(mod) :
                    mod'.insts[i].op = "icmp" => mod'.insts[i].ops[1] # IsNilFn]_vars

====
